---------------------------- MODULE Spec2Model ----------------------------
(***************************************************************************)
(* Confidence-interval calculator (src/app.py).                            *)
(*                                                                         *)
(* The three library functions validate_data,                              *)
(* calculate_confidence_intervals and calculate_confidence_interval_se are *)
(* operators computed as the source computes them; Spec lets a caller      *)
(* apply them to arbitrary arguments, MainSpec walks one run of main().    *)
(*                                                                         *)
(* Numbers.  The source computes in floating point; the model computes the *)
(* same expressions exactly.  Every value the source forms is of the shape *)
(* q + c * sqrt(r) with q, c rational and r a square-free integer, so a    *)
(* number is the record [q, c, r] in canonical form (c = 0 => r = 1), and  *)
(* two numbers are equal exactly when their records are.  NaN is a record   *)
(* of its own.  Confidence levels are held in percent (0.95 is 95).      *)
(***************************************************************************)
EXTENDS Integers, Sequences, FiniteSets

VARIABLES
    data,               \* the sample the caller holds and passes in
    confidence_levels,  \* the list of levels the caller holds and passes in
    se_value,           \* the multiplier the caller holds and passes in
    default_levels,     \* the list object behind confidence_levels=[...]
    op,                 \* the library function called last
    ret,                \* what that call returned
    locals,             \* the names its body had bound at the size check
    pc,                 \* where the run of main() stands
    file,               \* what the user uploaded
    is_valid,           \* main()'s is_valid, None until validate_data ran
    shown,              \* what main() has put on the page, in order
    called              \* the functions main() has called, in order

vars == <<data, confidence_levels, se_value, default_levels, op, ret, locals,
          pc, file, is_valid, shown, called>>

\* ------------------------------------------------------------------ bounds
MaxLen == 3        \* longest sample
MaxLevels == 2     \* longest list of confidence levels
MaxK == 2          \* multipliers are -1/2 .. MaxK/2 in steps of 1/2

\* ------------------------------------------------------- exact arithmetic
\* The arithmetic is written as functions: a function evaluates its
\* arguments once, before its body.
Abs(i) == IF i < 0 THEN -i ELSE i

Sgn(i) == IF i < 0 THEN -1 ELSE IF i = 0 THEN 0 ELSE 1

GCD[a \in Nat, b \in Nat] == IF b = 0 THEN a ELSE GCD[b, a % b]

\* the rational n/d in lowest terms with a positive denominator (d # 0)
Rat[n \in Int, d \in Int] ==
    LET g == GCD[Abs(n), Abs(d)]
    IN  [n |-> Sgn(d) * (n \div g), d |-> Sgn(d) * (d \div g)]

Rats == [n : Int, d : Int]
RatZero == [n |-> 0, d |-> 1]

\* the largest s with s*s dividing m, for m >= 1
SquarePart[m \in Nat] ==
    LET S == {s \in 1..m : s * s <= m /\ m % (s * s) = 0}
    IN  CHOOSE s \in S : \A t \in S : t <= s

\* A number q + c*sqrt(r) is the record [q, c, r] with r >= 1; a
\* floating-point NaN is the one record with r = 0.
Numbers == [q : Rats, c : Rats, r : Nat]
NaN == [q |-> RatZero, c |-> RatZero, r |-> 0]
IsNaN(x) == x.r = 0

\* qn/qd + (cn/cd)*sqrt(r) in canonical form: fractions in lowest terms, r
\* square-free, and r = 1 when there is no irrational part
Mk[qn \in Int, qd \in Int, cn \in Int, cd \in Int, r \in Nat] ==
    IF cn = 0 \/ r = 0 THEN [q |-> Rat[qn, qd], c |-> RatZero, r |-> 1]
    ELSE LET s == SquarePart[r]
         IN  IF r = s * s
             THEN [q |-> Rat[qn * cd + cn * s * qd, qd * cd], c |-> RatZero,
                   r |-> 1]
             ELSE [q |-> Rat[qn, qd], c |-> Rat[cn * s, cd], r |-> r \div (s * s)]

Num(n, d) == [q |-> Rat[n, d], c |-> RatZero, r |-> 1]
Zero == [q |-> RatZero, c |-> RatZero, r |-> 1]

\* x + y and x - y, for x and y in one field Q(sqrt r)
RAdd[x \in Numbers, y \in Numbers] ==
    IF IsNaN(x) \/ IsNaN(y) THEN NaN
    ELSE Mk[x.q.n * y.q.d + y.q.n * x.q.d, x.q.d * y.q.d,
            x.c.n * y.c.d + y.c.n * x.c.d, x.c.d * y.c.d,
            IF x.c.n = 0 THEN y.r ELSE x.r]

RSub[x \in Numbers, y \in Numbers] ==
    IF IsNaN(x) \/ IsNaN(y) THEN NaN
    ELSE Mk[x.q.n * y.q.d - y.q.n * x.q.d, x.q.d * y.q.d,
            x.c.n * y.c.d - y.c.n * x.c.d, x.c.d * y.c.d,
            IF x.c.n = 0 THEN y.r ELSE x.r]

\* x * y, for x and y in one field, or both without a rational part
RMul[x \in Numbers, y \in Numbers] ==
    IF IsNaN(x) \/ IsNaN(y) THEN NaN
    ELSE IF x.q.n = 0 /\ y.q.n = 0
         THEN Mk[0, 1, x.c.n * y.c.n, x.c.d * y.c.d, x.r * y.r]
         ELSE LET r == IF x.c.n = 0 THEN y.r ELSE x.r
                  d == x.q.d * y.q.d * x.c.d * y.c.d
              IN  Mk[x.q.n * y.q.n * x.c.d * y.c.d
                        + x.c.n * y.c.n * r * x.q.d * y.q.d, d,
                     x.q.n * y.c.n * x.c.d * y.q.d
                        + x.c.n * y.q.n * x.q.d * y.c.d, d,
                     r]

\* x / y = x * conj(y) / norm(y); a float division by zero does not raise,
\* the model gives NaN
RDiv[x \in Numbers, y \in Numbers] ==
    IF IsNaN(x) \/ IsNaN(y) \/ y = Zero THEN NaN
    ELSE LET norm == Rat[y.q.n * y.q.n * y.c.d * y.c.d
                            - y.c.n * y.c.n * y.r * y.q.d * y.q.d,
                         y.q.d * y.q.d * y.c.d * y.c.d]
         IN  RMul[x, Mk[y.q.n * norm.d, y.q.d * norm.n,
                        -y.c.n * norm.d, y.c.d * norm.n, y.r]]

\* the sign of q + c*sqrt(r)
RSign[x \in Numbers] ==
    IF x.c.n = 0 THEN Sgn(x.q.n)
    ELSE IF x.q.n = 0 \/ Sgn(x.q.n) = Sgn(x.c.n) THEN Sgn(x.c.n)
    ELSE LET q2 == x.q.n * x.q.n * x.c.d * x.c.d
             c2 == x.c.n * x.c.n * x.r * x.q.d * x.q.d
         IN  IF q2 > c2 THEN Sgn(x.q.n) ELSE Sgn(x.c.n)

RLess[x \in Numbers, y \in Numbers] ==
    ~IsNaN(x) /\ ~IsNaN(y) /\ RSign[RSub[x, y]] < 0

\* ---------------------------------------------------------- Python values
PyNone == [type |-> "NoneType"]
PyTuple(items) == [type |-> "tuple", items |-> items]
PyBool(b) == [type |-> "bool", value |-> b]
PyStr(s) == [type |-> "str", value |-> s]
PyDict(entries) == [type |-> "dict", entries |-> entries]

\* faulty variant: a tuple tested by its elements, as all(v) would
TruthyAll(v) ==
    CASE v.type = "NoneType" -> FALSE
      [] v.type = "tuple" -> \A i \in 1..Len(v.items) : v.items[i] # Zero
      [] v.type = "bool" -> v.value
      [] OTHER -> TRUE

\* bool(v) of the values the program tests: None is false, a tuple is true
\* exactly when it has an element, whatever the elements are
Truthy(v) ==
    CASE v.type = "NoneType" -> FALSE
      [] v.type = "tuple" -> Len(v.items) > 0
      [] v.type = "bool" -> v.value
      [] OTHER -> TRUE

\* faulty variant: every assignment adds an entry, as a list of pairs would
DictAppend(d, key, value) == Append(d, [key |-> key, value |-> value])

\* d[key] = value on an insertion-ordered dict: an existing key keeps its
\* place and takes the new value, a new key goes to the end
DictSet(d, key, value) ==
    IF \E i \in 1..Len(d) : d[i].key = key
    THEN [i \in 1..Len(d) |->
            IF d[i].key = key THEN [key |-> key, value |-> value] ELSE d[i]]
    ELSE Append(d, [key |-> key, value |-> value])

Keys(d) == [i \in 1..Len(d) |-> d[i].key]

\* ------------------------------------------------------------ numpy, scipy
RECURSIVE Sum(_)
Sum(s) == IF s = <<>> THEN Zero ELSE RAdd[Head(s), Sum(Tail(s))]

AsNumbers(sample) == [i \in 1..Len(sample) |-> Num(sample[i], 1)]

\* np.sqrt: sqrt(n/d) = sqrt(n*d)/d, NaN below zero.  The source takes the
\* root of rationals only (a variance, a count).
np_sqrt[x \in Numbers] ==
    IF IsNaN(x) THEN NaN
    ELSE IF x.c.n # 0 \/ x.q.n < 0 THEN NaN
    ELSE Mk[0, 1, 1, x.q.d, x.q.n * x.q.d]

\* np.mean: the sum over the count, NaN for an empty sample (0/0)
np_mean(sample) ==
    IF Len(sample) = 0 THEN NaN
    ELSE RDiv[Sum(AsNumbers(sample)), Num(Len(sample), 1)]

\* np.std(data, ddof): sqrt( sum (x - mean)^2 / (n - ddof) ), NaN when
\* n - ddof <= 0
Square[x \in Numbers] == RMul[x, x]

SquaredDeviations(sample, m) ==
    [i \in 1..Len(sample) |-> Square[RSub[Num(sample[i], 1), m]]]

np_std(sample, ddof) ==
    IF Len(sample) - ddof <= 0 THEN NaN
    ELSE np_sqrt[RDiv[Sum(SquaredDeviations(sample, np_mean(sample))),
                      Num(Len(sample) - ddof, 1)]]

\* the confidence levels the model draws from, in percent
Levels == {90, 95, 99}

Level(confidence) == Num(confidence, 100)

\* stats.norm.ppf, the standard normal quantile, tabulated to three decimals
\* at the probabilities (1 + c)/2 of the levels above; the lower tail is the
\* mirror image of the upper one
norm_ppf[p \in Numbers] ==
    LET upper(u) == CASE u = Num(1, 2)     -> Zero
                      [] u = Num(19, 20)   -> Num(1645, 1000)
                      [] u = Num(39, 40)   -> Num(1960, 1000)
                      [] u = Num(199, 200) -> Num(2576, 1000)
                      [] OTHER             -> NaN
    IN  IF IsNaN(p) THEN NaN
        ELSE IF RLess[p, Num(1, 2)]
             THEN RSub[Zero, upper(RSub[Num(1, 1), p])]
             ELSE upper(p)

\* ------------------------------------------------------- library functions
\* Each function is an operator giving what the call returns (ret) and the
\* local names bound when it returns (locals), in the order of the source.

NotEnoughPoints == "Not enough data points for analysis."

\* faulty variant: the bound of the check off by one
validate_data_le_2(sample) ==
    IF Len(sample) <= 2
    THEN PyTuple(<<PyBool(FALSE), PyStr(NotEnoughPoints)>>)
    ELSE PyTuple(<<PyBool(TRUE), PyNone>>)

\* validate_data(data)
validate_data(sample) ==
    IF Len(sample) < 2
    THEN PyTuple(<<PyBool(FALSE), PyStr(NotEnoughPoints)>>)
    ELSE PyTuple(<<PyBool(TRUE), PyNone>>)

\* faulty variant: one dict kept from call to call, as a mutable default argument
\* or a module-level dict would be
StaleDict ==
    IF op \in {"calculate_confidence_intervals",
               "calculate_confidence_intervals(default)"}
    THEN ret.items[2].entries ELSE <<>>

\* confidence_intervals = {} : a new dict in every call
NewDict == <<>>

\* faulty variant: the lower tail, stats.norm.ppf((1 - confidence) / 2)
ZValueLowerTail(confidence) ==
    norm_ppf[RDiv[RSub[Num(1, 1), Level(confidence)], Num(2, 1)]]

\* z_value = stats.norm.ppf((1 + confidence) / 2)
ZValue(confidence) ==
    norm_ppf[RDiv[RAdd[Num(1, 1), Level(confidence)], Num(2, 1)]]

\* faulty variant: the margin subtracted at both ends
IntervalMinusMinus(mean, margin_of_error) ==
    PyTuple(<<RSub[mean, margin_of_error], RSub[mean, margin_of_error]>>)

\* (mean - margin_of_error, mean + margin_of_error)
Interval(mean, margin_of_error) ==
    PyTuple(<<RSub[mean, margin_of_error], RAdd[mean, margin_of_error]>>)

\* one pass of the loop body of calculate_confidence_intervals
IntervalFor(mean, std_dev, n, confidence) ==
    Interval(mean, RMul[ZValue(confidence), RDiv[std_dev, np_sqrt[Num(n, 1)]]])

\* faulty variant: for confidence in sorted(confidence_levels)
RECURSIVE ForEachLevelSorted(_, _, _, _, _)
ForEachLevelSorted(confidence_intervals, levels, mean, std_dev, n) ==
    IF levels = <<>> THEN confidence_intervals
    ELSE LET i == CHOOSE i \in 1..Len(levels) :
                    \A j \in 1..Len(levels) : levels[i] <= levels[j]
         IN  ForEachLevelSorted(
                DictSet(confidence_intervals, levels[i],
                        IntervalFor(mean, std_dev, n, levels[i])),
                SubSeq(levels, 1, i - 1) \o SubSeq(levels, i + 1, Len(levels)),
                mean, std_dev, n)

\* for confidence in confidence_levels: confidence_intervals[confidence] = ...
RECURSIVE ForEachLevel(_, _, _, _, _)
ForEachLevel(confidence_intervals, levels, mean, std_dev, n) ==
    IF levels = <<>> THEN confidence_intervals
    ELSE ForEachLevel(
            DictSet(confidence_intervals, Head(levels),
                    IntervalFor(mean, std_dev, n, Head(levels))),
            Tail(levels), mean, std_dev, n)

\* calculate_confidence_intervals once mean, std_dev and n are bound: the new
\* dict, the size check, the loop and the return
ConfidenceIntervalsFrom(mean, std_dev, n, levels) ==
    [ret |->
        IF n <= 1
        THEN PyTuple(<<mean, PyDict(<<>>)>>)
        ELSE PyTuple(<<mean,
                       PyDict(ForEachLevel(NewDict, levels, mean, std_dev, n))>>),
     locals |-> [mean |-> mean, std_dev |-> std_dev, n |-> n]]

\* calculate_confidence_intervals(data, confidence_levels): mean, std_dev and
\* n are bound first, whatever the size of the sample
calculate_confidence_intervals(sample, levels) ==
    ConfidenceIntervalsFrom(np_mean(sample), np_std(sample, 1), Len(sample), levels)

\* faulty variant: the size check lets a sample of one element through
ConfidenceIntervalSeFromLt1(mean, std_dev, n, k) ==
    [ret |->
        IF n < 1
        THEN PyNone
        ELSE Interval(mean, RMul[k, RDiv[std_dev, np_sqrt[Num(n, 1)]]]),
     locals |-> [mean |-> mean, std_dev |-> std_dev, n |-> n]]

\* calculate_confidence_interval_se once mean, std_dev and n are bound: the
\* size check, standard_error, margin_of_error and the return
ConfidenceIntervalSeFrom(mean, std_dev, n, k) ==
    [ret |->
        IF n <= 1
        THEN PyNone
        ELSE Interval(mean, RMul[k, RDiv[std_dev, np_sqrt[Num(n, 1)]]]),
     locals |-> [mean |-> mean, std_dev |-> std_dev, n |-> n]]

\* calculate_confidence_interval_se(data, se_value)
calculate_confidence_interval_se(sample, k) ==
    ConfidenceIntervalSeFrom(np_mean(sample), np_std(sample, 1), Len(sample), k)

\* ----------------------------------------------------------------- inputs
SeqsUpTo(S, k) == UNION {[1..n -> S] : n \in 0..k}

\* sample elements: small integers, enough for equal, rational and
\* irrational standard deviations
Values == 0..2

Samples == SeqsUpTo(Values, MaxLen)
LevelSeqs == SeqsUpTo(Levels, MaxLevels)
Multipliers == {Num(j, 2) : j \in (-MaxK)..MaxK}

\* def calculate_confidence_intervals(data, confidence_levels=[0.90, 0.95, 0.99])
DefaultLevels == <<90, 95, 99>>

NoLocals == <<>>
NoFile == [kind |-> "none", column |-> <<>>]

\* ------------------------------------------------ the library, called freely
\* A caller holds a sample and the argument of one calculator (the other is
\* left at zero / empty) and calls the three functions in any order.
Init ==
    /\ data \in Samples
    /\ \E lv \in LevelSeqs, k \in Multipliers :
          /\ lv = <<>> \/ k = Zero
          /\ confidence_levels = lv
          /\ se_value = k
    /\ default_levels = DefaultLevels
    /\ op = "none"
    /\ ret = PyNone
    /\ locals = NoLocals
    /\ pc = "idle"
    /\ file = NoFile
    /\ is_valid = PyNone
    /\ shown = <<>>
    /\ called = <<>>

MainUnchanged == UNCHANGED <<pc, file, is_valid, shown, called>>
ArgsUnchanged == UNCHANGED <<data, confidence_levels, se_value, default_levels>>

CallValidateData ==
    /\ op' = "validate_data"
    /\ ret' = validate_data(data)
    /\ locals' = NoLocals
    /\ ArgsUnchanged /\ MainUnchanged

CallConfidenceIntervals ==
    LET r == calculate_confidence_intervals(data, confidence_levels)
    IN  /\ op' = "calculate_confidence_intervals"
        /\ ret' = r.ret
        /\ locals' = r.locals
        /\ ArgsUnchanged /\ MainUnchanged

\* calculate_confidence_intervals(data): the levels are the default list
CallConfidenceIntervalsDefault ==
    LET r == calculate_confidence_intervals(data, default_levels)
    IN  /\ op' = "calculate_confidence_intervals(default)"
        /\ ret' = r.ret
        /\ locals' = r.locals
        /\ ArgsUnchanged /\ MainUnchanged

CallConfidenceIntervalSe ==
    LET r == calculate_confidence_interval_se(data, se_value)
    IN  /\ op' = "calculate_confidence_interval_se"
        /\ ret' = r.ret
        /\ locals' = r.locals
        /\ ArgsUnchanged /\ MainUnchanged

Next ==
    \/ CallValidateData
    \/ CallConfidenceIntervals
    \/ CallConfidenceIntervalsDefault
    \/ CallConfidenceIntervalSe

Spec == Init /\ [][Next]_vars

\* ------------------------------------------------------------ one run of main
\* A cell of the selected column: a number or a missing entry.
Cell(v) == [na |-> FALSE, v |-> v]
NA == [na |-> TRUE, v |-> 0]
Columns == SeqsUpTo({Cell(v) : v \in Values} \cup {NA}, MaxLen)

Files ==
    {[kind |-> k, column |-> <<>>] :
        k \in {"none", "unreadable", "empty", "no_numeric"}}
    \cup {[kind |-> "numeric", column |-> c] : c \in Columns}

\* df[selected_column].dropna()
dropna(column) ==
    LET kept == SelectSeq(column, LAMBDA cell : ~cell.na)
    IN  [i \in 1..Len(kept) |-> kept[i].v]

\* the text typed for the levels and [float(x) for x in text.split(',')]:
\* a list of levels, or ValueError (ok = FALSE)
TextInputs ==
    { [text |-> "0.90, 0.95, 0.99", ok |-> TRUE, levels |-> <<90, 95, 99>>],
      [text |-> "0.99,0.90",        ok |-> TRUE, levels |-> <<99, 90>>],
      [text |-> "0.95, 0.95",       ok |-> TRUE, levels |-> <<95, 95>>],
      [text |-> "",                 ok |-> FALSE, levels |-> <<>>],
      [text |-> "95%",              ok |-> FALSE, levels |-> <<>>] }

\* st.number_input(..., min_value=0.0, ...)
NumberInputs == {k \in Multipliers : ~RLess[k, Zero]}

PleaseUpload == "Please upload a CSV or Excel file to proceed."
EmptyOrInvalid == "The uploaded file is empty or invalid."
NoNumericColumns == "No numerical columns found in the uploaded file."
ErrorReadingFile == "Error reading file"
Preview == "Here is a preview of your uploaded file:"
InvalidLevels ==
    "Invalid confidence levels. Please enter numbers separated by commas."
NotEnoughForSe ==
    "Not enough data to calculate the confidence interval using standard errors."

Error(text) == [via |-> "error", text |-> text, value |-> PyNone]
Info(text) == [via |-> "info", text |-> text, value |-> PyNone]
Write(text, value) == [via |-> "write", text |-> text, value |-> value]

MainInit ==
    /\ pc = "start"
    /\ file \in Files
    /\ data = <<>>
    /\ confidence_levels = <<>>
    /\ se_value = Zero
    /\ default_levels = DefaultLevels
    /\ op = "none"
    /\ ret = PyNone
    /\ locals = NoLocals
    /\ is_valid = PyNone
    /\ shown = <<>>
    /\ called = <<>>

\* from the upload to data = df[selected_column].dropna()
MainUpload ==
    /\ pc = "start"
    /\ called' = IF file.kind = "none" THEN called ELSE Append(called, "read_file")
    /\ shown' =
          CASE file.kind = "none" -> Append(shown, Info(PleaseUpload))
            [] file.kind = "unreadable" -> Append(shown, Error(ErrorReadingFile))
            [] file.kind = "empty" -> Append(shown, Error(EmptyOrInvalid))
            [] file.kind = "no_numeric" ->
                 shown \o <<Write(Preview, PyNone), Error(NoNumericColumns)>>
            [] OTHER -> Append(shown, Write(Preview, PyNone))
    /\ data' = IF file.kind = "numeric" THEN dropna(file.column) ELSE data
    /\ pc' = IF file.kind = "numeric" THEN "validate" ELSE "returned"
    /\ UNCHANGED <<confidence_levels, se_value, default_levels, op, ret, locals,
                   file, is_valid>>

\* faulty variant: the return after st.error is missing
MainValidateNoReturn ==
    /\ pc = "validate"
    /\ LET r == validate_data(data)
       IN  /\ op' = "validate_data"
           /\ ret' = r
           /\ is_valid' = r.items[1]
           /\ called' = Append(called, "validate_data")
           /\ shown' = IF ~Truthy(r.items[1])
                       THEN Append(shown, Error(r.items[2].value))
                       ELSE shown
           /\ pc' = "plot"
    /\ UNCHANGED <<data, confidence_levels, se_value, default_levels, locals, file>>

\* is_valid, error_message = validate_data(data); on failure st.error, return
MainValidate ==
    /\ pc = "validate"
    /\ LET r == validate_data(data)
       IN  /\ op' = "validate_data"
           /\ ret' = r
           /\ is_valid' = r.items[1]
           /\ called' = Append(called, "validate_data")
           /\ IF ~Truthy(r.items[1])
              THEN /\ shown' = Append(shown, Error(r.items[2].value))
                   /\ pc' = "returned"
              ELSE /\ shown' = shown
                   /\ pc' = "plot"
    /\ UNCHANGED <<data, confidence_levels, se_value, default_levels, locals, file>>

\* plot_distribution(data, selected_column)
MainPlot ==
    /\ pc = "plot"
    /\ called' = Append(called, "plot_distribution")
    /\ pc' = "levels"
    /\ UNCHANGED <<data, confidence_levels, se_value, default_levels, op, ret,
                   locals, file, is_valid, shown>>

\* the text input and its parse; ValueError shows an error and returns
MainLevels ==
    /\ pc = "levels"
    /\ \E t \in TextInputs :
          IF t.ok
          THEN /\ confidence_levels' = t.levels
               /\ pc' = "intervals"
               /\ shown' = shown
          ELSE /\ confidence_levels' = confidence_levels
               /\ pc' = "returned"
               /\ shown' = Append(shown, Error(InvalidLevels))
    /\ UNCHANGED <<data, se_value, default_levels, op, ret, locals, file,
                   is_valid, called>>

\* mean, confidence_intervals = calculate_confidence_intervals(...) and the
\* lines written for the mean and for each item of the dict, in its order
MainIntervals ==
    /\ pc = "intervals"
    /\ LET r == calculate_confidence_intervals(data, confidence_levels)
           entries == r.ret.items[2].entries
       IN  /\ op' = "calculate_confidence_intervals"
           /\ ret' = r.ret
           /\ locals' = r.locals
           /\ shown' = shown \o <<Write("Sample Mean", r.ret.items[1])>>
                          \o [i \in 1..Len(entries) |->
                                Write("Confidence Interval",
                                      PyTuple(<<Level(entries[i].key)>>
                                              \o entries[i].value.items))]
    /\ called' = Append(called, "calculate_confidence_intervals")
    /\ pc' = "se"
    /\ UNCHANGED <<data, confidence_levels, se_value, default_levels, file,
                   is_valid>>

\* se_value = st.number_input(...); ci_se = calculate_confidence_interval_se(...);
\* if ci_se: write the interval, else: st.error
MainSe ==
    /\ pc = "se"
    /\ \E k \in NumberInputs :
          LET r == calculate_confidence_interval_se(data, k)
          IN  /\ se_value' = k
              /\ op' = "calculate_confidence_interval_se"
              /\ ret' = r.ret
              /\ locals' = r.locals
              /\ shown' = IF Truthy(r.ret)
                           THEN Append(shown,
                                  Write("Confidence Interval using Standard Errors",
                                        r.ret))
                           ELSE Append(shown, Error(NotEnoughForSe))
    /\ called' = Append(called, "calculate_confidence_interval_se")
    /\ pc' = "done"
    /\ UNCHANGED <<data, confidence_levels, default_levels, file, is_valid>>

MainNext ==
    \/ MainUpload
    \/ MainValidate
    \/ MainPlot
    \/ MainLevels
    \/ MainIntervals
    \/ MainSe

MainSpec == MainInit /\ [][MainNext]_vars

\* ------------------------------------------------------------------ claims
Range(s) == {s[i] : i \in 1..Len(s)}

Lower(interval) == interval.items[1]
Upper(interval) == interval.items[2]
Width(interval) == RSub[Upper(interval), Lower(interval)]

CalledIntervals ==
    op \in {"calculate_confidence_intervals",
            "calculate_confidence_intervals(default)"}
CalledSe == op = "calculate_confidence_interval_se"

\* the list of levels the last call of calculate_confidence_intervals read
LevelsPassed ==
    IF op = "calculate_confidence_intervals(default)"
    THEN default_levels ELSE confidence_levels

\* the entries of the dict that call returned
Entries == ret.items[2].entries

\* s without the later repetitions of its elements
FirstOccurrences(s) ==
    LET first == {i \in 1..Len(s) : \A j \in 1..(i - 1) : s[j] # s[i]}
        pos[k \in 1..Cardinality(first)] ==
            CHOOSE i \in first : Cardinality({j \in first : j < i}) = k - 1
    IN  [k \in 1..Cardinality(first) |-> s[pos[k]]]

AllEqual(sample) == \A i, j \in 1..Len(sample) : sample[i] = sample[j]

\* C1: for a sample with fewer than 2 elements, whatever the levels and the
\* multiplier, validate_data returns ok = False,
\* calculate_confidence_intervals returns an empty dict and
\* calculate_confidence_interval_se returns None; each of them returns (a
\* value in ret), none raises.
C1_TooFewGivesEmptyOrAbsent ==
    Len(data) < 2 =>
        /\ op = "validate_data" =>
              ret.type = "tuple" /\ ret.items[1] = PyBool(FALSE)
        /\ CalledIntervals =>
              ret.type = "tuple" /\ ret.items[2] = PyDict(<<>>)
        /\ CalledSe => ret = PyNone

C1_Witness ==
    /\ op = "calculate_confidence_intervals"
    /\ Len(data) = 1
    /\ confidence_levels # <<>>
    /\ ret.items[2] = PyDict(<<>>)

\* C2 as stated: for n >= 2 the dict returned has as many entries as the
\* list of levels has elements, a repeated level giving repeated entries.
C2_OneEntryPerListElement ==
    (CalledIntervals /\ Len(data) >= 2) => Len(Entries) = Len(LevelsPassed)

\* C2 as amended: for n >= 2 the dict returned has one entry for each
\* distinct level of the list; a level that occurs several times gives one
\* entry, so the number of entries is the number of distinct levels.
C2_OneEntryPerDistinctLevel ==
    (CalledIntervals /\ Len(data) >= 2) =>
        /\ Len(Entries) = Cardinality(Range(LevelsPassed))
        /\ \A i, j \in 1..Len(Entries) :
              Entries[i].key = Entries[j].key => i = j
        /\ Range(Keys(Entries)) = Range(LevelsPassed)

C2_Witness ==
    /\ op = "calculate_confidence_intervals"
    /\ Len(data) >= 2
    /\ \E i, j \in 1..Len(confidence_levels) :
          i < j /\ confidence_levels[i] = confidence_levels[j]
    /\ Len(Entries) < Len(confidence_levels)

\* C3: for n >= 2 the entries of the dict returned are in the order in which
\* the caller's list names their levels (a list of distinct levels gives
\* exactly that sequence of keys; a repeated level stands where it first
\* occurs), and the interval of each entry is the one computed from its own
\* level.
C3_EntriesInCallerOrder ==
    (CalledIntervals /\ Len(data) >= 2) =>
        /\ Keys(Entries) = FirstOccurrences(LevelsPassed)
        /\ \A i \in 1..Len(Entries) :
              Entries[i].value =
                  IntervalFor(np_mean(data), np_std(data, 1), Len(data),
                              Entries[i].key)

C3_Witness ==
    /\ op = "calculate_confidence_intervals"
    /\ Len(data) >= 2
    /\ ~AllEqual(data)
    /\ confidence_levels = <<99, 90>>
    /\ Keys(Entries) = <<99, 90>>

\* C4 as stated: validate_data returns (False, "insufficient data") for
\* every sample shorter than 2 and (True, None) for every other sample.
C4_ReasonIsInsufficientData ==
    op = "validate_data" =>
        ret = IF Len(data) < 2
              THEN PyTuple(<<PyBool(FALSE), PyStr("insufficient data")>>)
              ELSE PyTuple(<<PyBool(TRUE), PyNone>>)

\* C4 as amended: validate_data returns
\* (False, "Not enough data points for analysis.") for every sample shorter
\* than 2, the empty one included, and (True, None) for every other sample.
C4_ReasonIsNotEnoughPoints ==
    op = "validate_data" =>
        ret = IF Len(data) < 2
              THEN PyTuple(<<PyBool(FALSE),
                             PyStr("Not enough data points for analysis.")>>)
              ELSE PyTuple(<<PyBool(TRUE), PyNone>>)

C4_Witness ==
    /\ op = "validate_data"
    /\ data = <<>>
    /\ ret.items[1] = PyBool(FALSE)
    /\ ret.items[2].type = "str"

\* C6 as stated: for every sample with n >= 2, those with all elements equal
\* included, the width upper - lower grows strictly with the confidence
\* level and grows strictly with the multiplier k >= 0, and k = 0 gives
\* (mean, mean).
C6_WidthStrictlyIncreasing ==
    /\ (CalledIntervals /\ Len(data) >= 2) =>
          \A i, j \in 1..Len(Entries) :
              Entries[i].key < Entries[j].key =>
                  RLess[Width(Entries[i].value), Width(Entries[j].value)]
    /\ (CalledSe /\ Len(data) >= 2 /\ ~RLess[se_value, Zero]) =>
          /\ \A k \in Multipliers :
                RLess[se_value, k] =>
                    RLess[Width(ret),
                          Width(calculate_confidence_interval_se(data, k).ret)]
          /\ se_value = Zero => ret = PyTuple(<<np_mean(data), np_mean(data)>>)

\* C6 as amended: for a sample with n >= 2 whose elements are not all equal
\* the width grows strictly with the confidence level and with the
\* multiplier k >= 0; for a sample whose elements are all equal the standard
\* deviation is 0 and every interval is (mean, mean), of width 0, whatever
\* the level or the multiplier; k = 0 gives (mean, mean) for every sample
\* with n >= 2.
C6_WidthIncreasingUnlessAllEqual ==
    /\ (CalledIntervals /\ Len(data) >= 2) =>
          \A i, j \in 1..Len(Entries) :
              Entries[i].key < Entries[j].key =>
                  IF AllEqual(data)
                  THEN /\ Width(Entries[i].value) = Zero
                       /\ Width(Entries[j].value) = Zero
                  ELSE RLess[Width(Entries[i].value), Width(Entries[j].value)]
    /\ (CalledSe /\ Len(data) >= 2 /\ ~RLess[se_value, Zero]) =>
          /\ \A k \in Multipliers :
                RLess[se_value, k] =>
                    IF AllEqual(data)
                    THEN /\ Width(ret) = Zero
                         /\ Width(calculate_confidence_interval_se(data, k).ret)
                               = Zero
                    ELSE RLess[Width(ret),
                               Width(calculate_confidence_interval_se(data, k).ret)]
          /\ se_value = Zero => ret = PyTuple(<<np_mean(data), np_mean(data)>>)

C6_Witness ==
    /\ op = "calculate_confidence_intervals"
    /\ Len(data) >= 2
    /\ ~AllEqual(data)
    /\ Len(Entries) >= 2
    /\ RLess[Zero, Width(Entries[1].value)]

\* C7: every interval computed for a sample with n >= 2 is symmetric about
\* the sample mean: mean - lower and upper - mean are equal, and equal to the
\* margin of error, z * std_dev / sqrt(n) for a level and k * std_dev /
\* sqrt(n) for a multiplier k of either sign.
C7_SymmetricAboutMean ==
    /\ (CalledIntervals /\ Len(data) >= 2) =>
          \A i \in 1..Len(Entries) :
              LET margin == RMul[ZValue(Entries[i].key),
                                 RDiv[np_std(data, 1), np_sqrt[Num(Len(data), 1)]]]
              IN  /\ RSub[ret.items[1], Lower(Entries[i].value)] = margin
                  /\ RSub[Upper(Entries[i].value), ret.items[1]] = margin
                  /\ ret.items[1] = np_mean(data)
    /\ (CalledSe /\ Len(data) >= 2) =>
          LET margin == RMul[se_value,
                             RDiv[np_std(data, 1), np_sqrt[Num(Len(data), 1)]]]
          IN  /\ RSub[np_mean(data), Lower(ret)] = margin
              /\ RSub[Upper(ret), np_mean(data)] = margin

C7_Witness ==
    /\ CalledSe
    /\ Len(data) >= 2
    /\ ~AllEqual(data)
    /\ RLess[se_value, Zero]
    /\ RLess[Upper(ret), Lower(ret)]

\* C8: neither calculator computes the moments when n < 2: the size check
\* comes before np.mean and np.std, so when a calculator returns for a
\* sample with n < 2 neither mean nor std_dev has been bound.
C8_SizeCheckBeforeMoments ==
    ((CalledIntervals \/ CalledSe) /\ Len(data) < 2) =>
        /\ "std_dev" \notin DOMAIN locals
        /\ "mean" \notin DOMAIN locals

\* C9: the calls leave the sample, the list of levels and the multiplier
\* they are given as they were, and the default list of levels
\* [0.90, 0.95, 0.99] too, and the dict a call of
\* calculate_confidence_intervals returns is built from nothing but that
\* call's levels: it holds no entry for a level that is not in the list the
\* call was given.
C9_CallsAreFramed ==
    /\ [](/\ default_levels = <<90, 95, 99>>
          /\ CalledIntervals =>
                /\ ret.type = "tuple"
                /\ \A i \in 1..Len(Entries) :
                      Entries[i].key \in Range(LevelsPassed)
                /\ Len(Entries) <= Len(LevelsPassed))
    /\ [][/\ data' = data
          /\ confidence_levels' = confidence_levels
          /\ se_value' = se_value
          /\ default_levels' = default_levels]_vars

C9_Witness ==
    /\ op = "calculate_confidence_intervals"
    /\ Len(data) >= 2
    /\ Len(confidence_levels) = 1
    /\ Keys(Entries) = confidence_levels
    /\ default_levels = <<90, 95, 99>>

\* C5: in main, once validate_data has reported failure the run is over:
\* the message of validate_data is the last thing shown, no step of main can
\* follow, and plot_distribution, calculate_confidence_intervals and
\* calculate_confidence_interval_se have not been called.
C5_FailedValidationEndsRun ==
    is_valid = PyBool(FALSE) =>
        /\ pc = "returned"
        /\ ~ENABLED MainNext
        /\ shown # <<>>
        /\ shown[Len(shown)] = Error("Not enough data points for analysis.")
        /\ Range(called) \cap {"plot_distribution",
                               "calculate_confidence_intervals",
                               "calculate_confidence_interval_se"} = {}

C5_Witness ==
    /\ is_valid = PyBool(FALSE)
    /\ pc = "returned"
    /\ Len(file.column) >= 2
    /\ Len(data) = 1

\* C10: in main, a run that has called calculate_confidence_interval_se has
\* passed validate_data, so the sample has n >= 2, the call returned a pair
\* and not None, the pair is what was written last, and the message "Not
\* enough data to calculate the confidence interval using standard errors."
\* is not shown; the pair (0, 0) of k = 0 and mean 0 included.
C10_SeBranchAlwaysInterval ==
    "calculate_confidence_interval_se" \in Range(called) =>
        /\ is_valid = PyBool(TRUE)
        /\ Len(data) >= 2
        /\ ret.type = "tuple"
        /\ Len(ret.items) = 2
        /\ shown[Len(shown)].via = "write"
        /\ shown[Len(shown)].value = ret
        /\ \A i \in 1..Len(shown) : shown[i].text # NotEnoughForSe

C10_Witness ==
    /\ pc = "done"
    /\ se_value = Zero
    /\ ret = PyTuple(<<Zero, Zero>>)
    /\ shown[Len(shown)].via = "write"
    /\ shown[Len(shown)].value = ret

=============================================================================
